---- MODULE Spec2Model ----
(***************************************************************************)
(* Model of webex-auth.ts: the TokenManager class (isValidTokenFormat,     *)
(* validatePersonalToken, saveToken, getTokenAutomatically) and the login  *)
(* and info commands of main.                                              *)
(*                                                                         *)
(* A JavaScript string is a sequence of one-character strings.             *)
(***************************************************************************)
EXTENDS Integers, Sequences, FiniteSets, TLC

(***************************************************************************)
(* Characters and the character classes used by the regular expressions.  *)
(***************************************************************************)
UpperSeq == <<"A","B","C","D","E","F","G","H","I","J","K","L","M","N","O","P","Q","R","S","T","U","V","W","X","Y","Z">>

LowerSeq == <<"a","b","c","d","e","f","g","h","i","j","k","l","m","n","o","p","q","r","s","t","u","v","w","x","y","z">>

DigitSeq == <<"0","1","2","3","4","5","6","7","8","9">>

Range(s) == {s[i] : i \in 1..Len(s)}

Upper == Range(UpperSeq)

Lower == Range(LowerSeq)

Digit == Range(DigitSeq)

\* \s of a JavaScript regular expression, and the characters trim() removes
WS == {" ", "\t", "\n", "\r"}

\* the characters the regular expression `.` does not match
LineTerm == {"\n", "\r"}

\* i flag: a character compared after case folding
ToLower(c) == IF c \in Upper THEN LowerSeq[CHOOSE i \in 1..26 : UpperSeq[i] = c] ELSE c

\* the wildcard `.` inside a pattern literal
Dot == "ANYCHAR"

\* /^pat/i where pat is a literal that may hold `.` wildcards
MatchPrefixCI(s, pat) ==
    /\ Len(s) >= Len(pat)
    /\ \A i \in 1..Len(pat) :
          IF pat[i] = Dot THEN s[i] \notin LineTerm ELSE ToLower(s[i]) = pat[i]

\* /pat/i : pat occurs somewhere in s
ContainsCI(s, pat) ==
    \E k \in 0..(Len(s) - Len(pat)) :
       \A i \in 1..Len(pat) : ToLower(s[k + i]) = pat[i]

\* number of leading whitespace characters
LeadingWS(s) ==
    CHOOSE k \in 0..Len(s) :
       /\ \A i \in 1..k : s[i] \in WS
       /\ (k = Len(s) \/ s[k + 1] \notin WS)

\* number of trailing whitespace characters
TrailingWS(s) ==
    CHOOSE k \in 0..Len(s) :
       /\ \A i \in (Len(s) - k + 1)..Len(s) : s[i] \in WS
       /\ (k = Len(s) \/ s[Len(s) - k] \notin WS)

\* String.prototype.trim
Trim(s) ==
    IF LeadingWS(s) = Len(s) THEN <<>>
    ELSE SubSeq(s, LeadingWS(s) + 1, Len(s) - TrailingWS(s))

BearerWord == <<"b","e","a","r","e","r">>

\* /^Bearer\s+/i matches at the start of s
HasBearerPrefix(s) ==
    /\ Len(s) >= Len(BearerWord) + 1
    /\ MatchPrefixCI(s, BearerWord)
    /\ s[Len(BearerWord) + 1] \in WS

\* a classifier that forgets to remove the prefix
StripBearer_keep(s) == s

\* s.replace(/^Bearer\s+/i, '') : the word and all whitespace after it go
StripBearer(s) ==
    IF HasBearerPrefix(s)
    THEN LET rest == SubSeq(s, Len(BearerWord) + 1, Len(s))
         IN  SubSeq(rest, LeadingWS(rest) + 1, Len(rest))
    ELSE s

(***************************************************************************)
(* isValidTokenFormat                                                      *)
(***************************************************************************)
MinTokenLen == 80

MinXRun == 10

MinWordLen == 3

\* const cleaned = text.replace(/^Bearer\s+/i, '').trim()
cleaned(text) == Trim(StripBearer(text))

\* /^[A-Za-z0-9+/_-]+$/
TokenChars == Upper \cup Lower \cup Digit \cup {"+", "/", "_", "-"}

webexTokenPattern(s) == Len(s) >= 1 /\ \A i \in 1..Len(s) : s[i] \in TokenChars

\* /^\{.*\}$/, /^\[.*\]$/, /^".*"$/
Wrapped(s, open, close) ==
    /\ Len(s) >= 2
    /\ s[1] = open
    /\ s[Len(s)] = close
    /\ \A i \in 2..(Len(s) - 1) : s[i] \notin LineTerm

\* /:\s*"/ and /,\s*"/
ThenQuote(s, c) ==
    \E i \in 1..Len(s) : \E j \in (i + 1)..Len(s) :
       /\ s[i] = c
       /\ s[j] = "\""
       /\ \A k \in (i + 1)..(j - 1) : s[k] \in WS

excludeJSONPatterns(s) ==
    \/ ContainsCI(s, <<"t","r","a","c","k","i","n","g","i","d">>)
    \/ Wrapped(s, "{", "}")
    \/ Wrapped(s, "[", "]")
    \/ Wrapped(s, "\"", "\"")
    \/ ThenQuote(s, ":")
    \/ ThenQuote(s, ",")

PlaceholderPrefixes ==
    { <<"e","x","a","m","p","l","e">>,
      <<"s","a","m","p","l","e">>,
      <<"d","e","m","o">>,
      <<"t","e","s","t">>,
      <<"y","o","u","r",Dot,"t","o","k","e","n",Dot,"h","e","r","e">>,
      <<"r","e","p","l","a","c","e",Dot,"w","i","t","h">>,
      <<"p","l","a","c","e","h","o","l","d","e","r">>,
      <<"x","x","x","x","x","x","x","x">>,
      <<"a","a","a","a","a","a">>,
      <<"1","1","1","1","1","1">>,
      <<"0","0","0","0","0","0">>,
      <<"i","n","s","e","r","t",Dot,"y","o","u","r">>,
      <<"p","u","t",Dot,"y","o","u","r">>,
      <<"a","d","d",Dot,"y","o","u","r">>,
      <<"e","n","t","e","r",Dot,"y","o","u","r">>,
      <<"c","o","p","y",Dot,"y","o","u","r">> }

IsLetter(c) == c \in Upper \cup Lower

\* /^[x]{10,}/i
XRun(s) == Len(s) >= MinXRun /\ \A i \in 1..MinXRun : ToLower(s[i]) = "x"

\* /^[a-z]{3,}[.][a-z]{3,}/i
DottedWords(s) ==
    \E k \in MinWordLen..Len(s) :
       /\ Len(s) >= k + 1 + MinWordLen
       /\ \A i \in 1..k : IsLetter(s[i])
       /\ s[k + 1] = "."
       /\ \A i \in (k + 2)..(k + 1 + MinWordLen) : IsLetter(s[i])

excludePatterns(s) ==
    \/ \E p \in PlaceholderPrefixes : MatchPrefixCI(s, p)
    \/ XRun(s)
    \/ DottedWords(s)

hasNumbers(s) == \E i \in 1..Len(s) : s[i] \in Digit

hasUppercase(s) == \E i \in 1..Len(s) : s[i] \in Upper

hasLowercase(s) == \E i \in 1..Len(s) : s[i] \in Lower

hasSpecialChars(s) == \E i \in 1..Len(s) : s[i] \in {"_", "-"}

\* a length test that is off by one
TooShort_offByOne(s) == Len(s) <= MinTokenLen

\* if (cleaned.length < 80) return false
TooShort(s) == Len(s) < MinTokenLen

isValidTokenFormat(text) ==
    LET c == cleaned(text)
    IN  IF TooShort(c) THEN FALSE
        ELSE IF ~webexTokenPattern(c) THEN FALSE
        ELSE IF excludeJSONPatterns(c) THEN FALSE
        ELSE IF excludePatterns(c) THEN FALSE
        ELSE IF ~hasNumbers(c) \/ ~hasUppercase(c) \/ ~hasLowercase(c) THEN FALSE
        ELSE IF hasSpecialChars(c) THEN TRUE
        ELSE TRUE

(***************************************************************************)
(* Inputs of the classifier: a prefix, a head, padding up to a length      *)
(* around MinTokenLen, and a suffix.                                       *)
(***************************************************************************)
MaxExtra == 1

Pad(c, n) == [i \in 1..n |-> c]

Prefixes ==
    { <<>>,
      <<"B","e","a","r","e","r"," ">>,
      <<"b","E","A","R","e","r"," ","\t">>,
      <<"B","e","a","r","e","r">>,
      <<" ">>,
      <<" ","B","e","a","r","e","r"," ">> }

Heads ==
    { <<>>,
      <<"A","b","1">>, <<"a","b","1">>, <<"A","B","1">>, <<"A","b","c">>,
      <<"A","b","1","_">>,
      <<"T","e","s","t","1">>, <<"d","e","m","o","A","1">>,
      <<"E","x","a","m","p","l","e","1">>, <<"s","a","m","p","l","E","1">>,
      <<"P","l","a","c","e","h","o","l","d","e","r","1">>,
      <<"Y","o","u","r","_","t","o","k","e","n","-","h","e","r","e","1">>,
      <<"r","e","p","l","a","c","e","_","W","i","t","h","1">>,
      <<"I","n","s","e","r","t","-","y","o","u","r","1">>,
      <<"p","u","t","/","y","o","u","r","A","1">>,
      <<"a","d","d","+","y","o","u","r","A","1">>,
      <<"e","n","t","e","r","_","y","o","u","r","A","1">>,
      <<"c","o","p","y","-","y","o","u","r","A","1">>,
      <<"x","x","x","x","x","x","x","x","A","1">>,
      <<"X","x","X","x","X","x","X","x","X","x","a","1">>,
      <<"a","a","a","a","a","a","B","1">>,
      <<"1","1","1","1","1","1","a","B">>,
      <<"0","0","0","0","0","0","a","B">>,
      <<"A","1","T","r","a","c","k","i","n","g","I","D","b">>,
      <<"{","A","1","b">>, <<"[","A","1","b">>, <<"\"","A","1","b">>,
      <<"A","1",":"," ","\"","b">>, <<"A","1",",","\"","b">>,
      <<"A","1","b"," ","c">>, <<"A","1","b","=">>,
      <<"a","b","c",".","d","e","f","A","1">>,
      <<"A","1","b","B","e","a","r","e","r"," ">> }

PadChars == {"x", "-"}

Suffixes == { <<>>, <<" ">>, <<"}">>, <<"]">>, <<"\"">>, <<"\n">> }

BodyLens == (MinTokenLen - 1)..(MinTokenLen + MaxExtra)

Inputs ==
    { p \o h \o Pad(c, n - Len(h)) \o s :
        p \in Prefixes, h \in Heads, c \in PadChars, n \in BodyLens, s \in Suffixes }

\* the literal "Bearer " of the prefix law
BearerSp == <<"B","e","a","r","e","r"," ">>

(***************************************************************************)
(* Options: <<>> is null / undefined / no file, <<v>> holds v.             *)
(***************************************************************************)
None == <<>>

Some(v) == <<v>>

IsSome(o) == Len(o) = 1

(***************************************************************************)
(* saveToken: the text written to ~/.webex-cli/.env and webex-env.sh       *)
(***************************************************************************)
KeyAccess == <<"W","E","B","E","X","_","A","C","C","E","S","S","_","T","O","K","E","N","=">>

KeyRefresh == <<"W","E","B","E","X","_","R","E","F","R","E","S","H","_","T","O","K","E","N","=">>

KeyExpires == <<"W","E","B","E","X","_","T","O","K","E","N","_","E","X","P","I","R","E","S","_","A","T","=">>

NL == <<"\n">>

\* String.prototype.startsWith
StartsWith(s, p) == Len(s) >= Len(p) /\ SubSeq(s, 1, Len(p)) = p

RECURSIVE NumToStr(_)
\* a non-negative number inside a template literal
NumToStr(n) ==
    IF n < 10 THEN <<DigitSeq[n + 1]>>
    ELSE NumToStr(n \div 10) \o <<DigitSeq[(n % 10) + 1]>>

RECURSIVE Split(_)
\* s.split('\n')
Split(s) ==
    IF \A i \in 1..Len(s) : s[i] # "\n" THEN <<s>>
    ELSE LET k == CHOOSE i \in 1..Len(s) : s[i] = "\n" /\ \A j \in 1..(i - 1) : s[j] # "\n"
         IN  <<SubSeq(s, 1, k - 1)>> \o Split(SubSeq(s, k + 1, Len(s)))

RECURSIVE Join(_)
\* lines.join('\n')
Join(lines) ==
    IF Len(lines) = 0 THEN <<>>
    ELSE IF Len(lines) = 1 THEN lines[1]
    ELSE lines[1] \o NL \o Join(Tail(lines))

\* Date.now() + (token.expires_in * 1000)
ExpiresAt(token, t) == t + (token.expires_in * 1000)

envContent(token, t) ==
    KeyAccess \o token.access_token \o NL
    \o KeyRefresh \o token.refresh_token \o NL
    \o KeyExpires \o NumToStr(ExpiresAt(token, t)) \o NL

\* a filter that forgets the refresh and expiry keys
IsWebexLine_accessOnly(line) == StartsWith(line, KeyAccess)

IsWebexLine(line) ==
    \/ StartsWith(line, KeyAccess)
    \/ StartsWith(line, KeyRefresh)
    \/ StartsWith(line, KeyExpires)

\* existingContent: '' when the file does not exist
existingContent(file) == IF IsSome(file) THEN file[1] ELSE <<>>

KeptLine(line) == ~IsWebexLine(line) /\ Trim(line) # <<>>

\* a save that keeps every old line
keptLines_all(file) == Split(existingContent(file))

\* lines surviving both filters of saveToken
keptLines(file) == SelectSeq(Split(existingContent(file)), KeptLine)

newContent(file, token, t) == Join(keptLines(file) \o <<envContent(token, t)>>)

ShHead == <<"#","!","/","b","i","n","/","b","a","s","h","\n","#"," ","W","e","b","e","x"," ","C","L","I"," ","T","o","k","e","n"," ","E","n","v","i","r","o","n","m","e","n","t"," ","V","a","r","i","a","b","l","e","s","\n","e","x","p","o","r","t"," ","W","E","B","E","X","_","A","C","C","E","S","S","_","T","O","K","E","N","=","\"">>

ShRefresh == <<"\"","\n","e","x","p","o","r","t"," ","W","E","B","E","X","_","R","E","F","R","E","S","H","_","T","O","K","E","N","=","\"">>

ShExpires == <<"\"","\n","e","x","p","o","r","t"," ","W","E","B","E","X","_","T","O","K","E","N","_","E","X","P","I","R","E","S","_","A","T","=","\"">>

ShTail == <<"\"","\n">>

shellScript(token, t) ==
    ShHead \o token.access_token
    \o ShRefresh \o token.refresh_token
    \o ShExpires \o NumToStr(ExpiresAt(token, t)) \o ShTail

(***************************************************************************)
(* The info command: what it reads back from .env                          *)
(***************************************************************************)
\* positions where key is followed by at least one character of a line
MatchStarts(content, key) ==
    { k \in 0..(Len(content) - Len(key) - 1) :
        /\ SubSeq(content, k + 1, k + Len(key)) = key
        /\ content[k + Len(key) + 1] \notin LineTerm }

\* length of the run of non line terminators starting at position from
RunLen(content, from) ==
    CHOOSE n \in 0..(Len(content) - from + 1) :
       /\ \A i \in from..(from + n - 1) : content[i] \notin LineTerm
       /\ (from + n > Len(content) \/ content[from + n] \in LineTerm)

Min(S) == CHOOSE x \in S : \A y \in S : x <= y

\* envContent.match(/KEY(.+)/)?.[1]
MatchValue(content, key) ==
    IF MatchStarts(content, key) = {} THEN None
    ELSE LET k == Min(MatchStarts(content, key))
             from == k + Len(key) + 1
         IN  Some(SubSeq(content, from, from + RunLen(content, from) - 1))

DigitVal(c) == (CHOOSE i \in 1..10 : DigitSeq[i] = c) - 1

RECURSIVE DigitsVal(_)
DigitsVal(ds) ==
    IF Len(ds) = 0 THEN 0
    ELSE 10 * DigitsVal(SubSeq(ds, 1, Len(ds) - 1)) + DigitVal(ds[Len(ds)])

\* parseInt(str): leading whitespace, an optional sign, then digits
parseInt(str) ==
    LET s1 == SubSeq(str, LeadingWS(str) + 1, Len(str))
        neg == Len(s1) >= 1 /\ s1[1] = "-"
        s2 == IF Len(s1) >= 1 /\ s1[1] \in {"-", "+"} THEN Tail(s1) ELSE s1
        n == CHOOSE k \in 0..Len(s2) :
                /\ \A i \in 1..k : s2[i] \in Digit
                /\ (k = Len(s2) \/ s2[k + 1] \notin Digit)
    IN  IF n = 0 THEN [nan |-> TRUE, val |-> 0]
        ELSE [nan |-> FALSE,
              val |-> IF neg THEN 0 - DigitsVal(SubSeq(s2, 1, n)) ELSE DigitsVal(SubSeq(s2, 1, n))]

ShownLen == 20

\* token.substring(0, 20)
Shown(s) == SubSeq(s, 1, IF Len(s) < ShownLen THEN Len(s) ELSE ShownLen)

NotRun == [status |-> "notrun", access |-> <<>>, refresh |-> None, expires |-> "none"]

\* the lines the info command prints for the file content at time t
infoReport(file, t) ==
    IF ~IsSome(file) THEN [NotRun EXCEPT !.status = "nofile"]
    ELSE LET content == file[1]
             accessToken == MatchValue(content, KeyAccess)
             refreshToken == MatchValue(content, KeyRefresh)
             expiresAt == MatchValue(content, KeyExpires)
         IN  IF ~IsSome(accessToken) THEN [NotRun EXCEPT !.status = "notoken"]
             ELSE [status |-> "shown",
                   access |-> Shown(accessToken[1]),
                   refresh |-> IF IsSome(refreshToken) THEN Some(Shown(refreshToken[1])) ELSE None,
                   expires |->
                      IF ~IsSome(expiresAt) THEN "none"
                      ELSE LET expiryTimestamp == parseInt(expiresAt[1])
                           IN  IF ~expiryTimestamp.nan /\ expiryTimestamp.val = 0 THEN "Never"
                               ELSE IF expiryTimestamp.nan THEN "Invalid Date"
                               ELSE IF expiryTimestamp.val < t THEN "Date (EXPIRED)"
                               ELSE "Date"]

(***************************************************************************)
(* getTokenAutomatically: the data of the flow                             *)
(***************************************************************************)
\* the calls between launch and the sign-in plan
SetupCalls == <<"newPage", "evaluate", "overridePermissions", "goto">>

\* the six steps of the automated login; step 6 maximizes before it focuses
SignInPlan ==
    << [description |-> "Login button",   action |-> "click", maximize |-> FALSE],
       [description |-> "email",          action |-> "type",  maximize |-> FALSE],
       [description |-> "Sign In button", action |-> "click", maximize |-> FALSE],
       [description |-> "email again",    action |-> "type",  maximize |-> FALSE],
       [description |-> "Next button",    action |-> "click", maximize |-> FALSE],
       [description |-> "password field", action |-> "focus", maximize |-> TRUE] >>

\* avatarSelectors.length
NumAvatarSelectors == 7

\* the steps after the avatar: copy token button, OK button
RevealPlan == <<"copy-token-modal-button", "confirm-copy-button">>

\* a qualifying token of 120 characters
GoodToken == <<"Y","z","A","w","M","T","_","P","F","8","4","_","1","e","b","-">> \o Pad("k", MinTokenLen + 40 - 16)

\* what the clipboard may hold after the copy
ClipTexts ==
    { <<>>,
      <<"{", "}">>,
      GoodToken,
      <<"b","e","a","r","e","r"," "," ">> \o GoodToken \o <<"\n">>,
      <<" ">> \o GoodToken,
      <<"B","e","a","r","e","r","\t">> \o GoodToken \o <<" "," ">>,
      <<" ","B","e","a","r","e","r"," ">> \o GoodToken,
      Pad("x", MinTokenLen) }

\* the HTTP statuses of GET /v1/people/me; 0 is a transport error
Statuses == {200, 204, 401, 0}

MaxClock == 2

OldEnv ==
    <<"F","O","O","=","b","a","r">> \o NL
    \o <<"W","E","B","E","X","_","A","C","C","E","S","S","_","T","O","K","E","N","=","o","l","d">> \o NL
    \o <<"W","E","B","E","X","_","T","O","K","E","N","_","E","X","P","I","R","E","S","_","A","T","=","5">> \o NL

\* the .env file before the run
InitialEnvFiles == {None, Some(OldEnv)}

P(a, i) == [at |-> a, i |-> i]

VARIABLES
    pc,            \* position in getTokenAutomatically
    browser,       \* "none", "open", "closed"
    closeCalls,    \* number of browser.close() calls
    signInFailed,  \* a step of the sign-in plan threw
    trustAppeared, \* the wait for the trust-device button succeeded
    trustClicked,  \* the trust-device button was clicked
    avatarClicked, \* let avatarClicked
    revealFailed,  \* a step of the reveal plan threw
    clipReads,     \* number of navigator.clipboard.readText() calls
    clip,          \* the clipboard text read, if any
    classifyCalls, \* calls of isValidTokenFormat: argument and verdict
    token,         \* let token: string | null
    validateCalls, \* calls of validatePersonalToken: argument, status, result
    requests,      \* number of GET requests sent to /v1/people/me
    isValid,       \* const isValid
    saveCalls,     \* calls of saveToken: the TokenResponse passed
    envFile,       \* ~/.webex-cli/.env
    shFile,        \* ~/.webex-cli/webex-env.sh
    envFile0,      \* .env before the run, or before the latest saveToken call
    now,           \* the clock
    thrownAt,      \* where the exception caught by the outer handler came from
    outcome,       \* how the run ended
    exitCode,      \* exit code of the process, -1 while it runs
    infoOut,       \* what a later info command printed
    cin, cdone, cout, pdone, pout

planVars == <<signInFailed, trustAppeared>>

orchVars ==
    <<pc, browser, closeCalls, planVars, requests, trustClicked, avatarClicked, revealFailed, clipReads, clip,
      classifyCalls, token, validateCalls, isValid, saveCalls, envFile, shFile,
      envFile0, now, thrownAt, outcome, exitCode, infoOut>>

harnessVars == <<cin, cdone, cout, pdone, pout>>

vars == <<orchVars, harnessVars>>

\* variables no page call touches
dataVars ==
    <<clip, classifyCalls, token, validateCalls, requests, isValid, saveCalls, envFile,
      shFile, envFile0, now, outcome, exitCode, infoOut>>

ghostVars == <<closeCalls, trustClicked, avatarClicked, revealFailed, clipReads>>

OrchInit ==
    /\ pc = P("import", 0)
    /\ browser = "none"
    /\ closeCalls = 0
    /\ trustClicked = FALSE
    /\ signInFailed = FALSE
    /\ trustAppeared = FALSE
    /\ requests = 0
    /\ avatarClicked = FALSE
    /\ revealFailed = FALSE
    /\ clipReads = 0
    /\ clip = None
    /\ classifyCalls = <<>>
    /\ token = None
    /\ validateCalls = <<>>
    /\ isValid = FALSE
    /\ saveCalls = <<>>
    /\ envFile \in InitialEnvFiles
    /\ envFile0 = envFile
    /\ shFile = None
    /\ now = 1
    /\ thrownAt = "none"
    /\ outcome = "Running"
    /\ exitCode = -1
    /\ infoOut = NotRun

\* an exception reaches the outer catch of getTokenAutomatically
ThrowOuter == pc' = P("outer_catch", 0) /\ thrownAt' = pc.at

(***************************************************************************)
(* Lines 105-137: launch and set up the page                               *)
(***************************************************************************)
ImportPuppeteer ==
    /\ pc.at = "import"
    /\ \/ pc' = P("launch", 0) /\ UNCHANGED thrownAt
       \/ ThrowOuter
    /\ UNCHANGED <<browser, ghostVars, dataVars, planVars, harnessVars>>

Launch ==
    /\ pc.at = "launch"
    /\ \/ pc' = P("setup", 1) /\ browser' = "open" /\ UNCHANGED thrownAt
       \/ ThrowOuter /\ UNCHANGED browser
    /\ UNCHANGED <<ghostVars, dataVars, planVars, harnessVars>>

SetupCall ==
    /\ pc.at = "setup"
    /\ \/ /\ pc' = IF pc.i < Len(SetupCalls) THEN P("setup", pc.i + 1) ELSE P("signin_wait", 1)
          /\ UNCHANGED thrownAt
       \/ ThrowOuter
    /\ UNCHANGED <<browser, ghostVars, dataVars, planVars, harnessVars>>

(***************************************************************************)
(* Lines 144-202: the sign-in plan; its catch only logs                    *)
(***************************************************************************)
AfterSignIn == P("mfa_wait", 0)

\* a handler that lets the exception of step i end the run
SignInCatch_rethrow(i) == P("outer_catch", 0)

\* a handler that goes on with the step after the failed step i
SignInCatch_continue(i) == IF i < Len(SignInPlan) THEN P("signin_wait", i + 1) ELSE P("mfa_wait", 0)

\* catch (stepError), entered from step i: log, then fall out of the try block
SignInCatch(i) == P("mfa_wait", 0)

SignInWait ==
    /\ pc.at = "signin_wait"
    /\ \/ /\ pc' = IF SignInPlan[pc.i].maximize THEN P("signin_maximize", pc.i) ELSE P("signin_act", pc.i)
          /\ UNCHANGED signInFailed
       \/ pc' = SignInCatch(pc.i) /\ signInFailed' = TRUE
    /\ UNCHANGED <<browser, thrownAt, ghostVars, dataVars, trustAppeared, harnessVars>>

SignInMaximize ==
    /\ pc.at = "signin_maximize"
    /\ \/ pc' = P("signin_act", pc.i) /\ UNCHANGED signInFailed
       \/ pc' = SignInCatch(pc.i) /\ signInFailed' = TRUE
    /\ UNCHANGED <<browser, thrownAt, ghostVars, dataVars, trustAppeared, harnessVars>>

SignInAct ==
    /\ pc.at = "signin_act"
    /\ \/ /\ pc' = IF pc.i < Len(SignInPlan) THEN P("signin_wait", pc.i + 1) ELSE AfterSignIn
          /\ UNCHANGED signInFailed
       \/ pc' = SignInCatch(pc.i) /\ signInFailed' = TRUE
    /\ UNCHANGED <<browser, thrownAt, ghostVars, dataVars, trustAppeared, harnessVars>>

(***************************************************************************)
(* Lines 204-229: wait for the trust-device button; its catch only logs    *)
(***************************************************************************)
\* a handler that gives up on the extraction
AfterMfa_giveUp == P("close", 0)

AfterMfa == P("page_url", 0)

MfaWait ==
    /\ pc.at = "mfa_wait"
    /\ \/ pc' = P("mfa_click", 0) /\ trustAppeared' = TRUE
       \/ pc' = AfterMfa /\ UNCHANGED trustAppeared
    /\ UNCHANGED <<browser, thrownAt, ghostVars, dataVars, signInFailed, harnessVars>>

MfaClick ==
    /\ pc.at = "mfa_click"
    /\ \/ pc' = P("mfa_minimize", 0) /\ trustClicked' = TRUE
       \/ pc' = AfterMfa /\ UNCHANGED trustClicked
    /\ UNCHANGED <<browser, thrownAt, closeCalls, avatarClicked, revealFailed, clipReads, dataVars, planVars, harnessVars>>

MfaMinimize ==
    /\ pc.at = "mfa_minimize"
    /\ pc' = AfterMfa
    /\ UNCHANGED <<browser, thrownAt, ghostVars, dataVars, planVars, harnessVars>>

(***************************************************************************)
(* Lines 235-306: the reveal plan and the clipboard read, one try block    *)
(***************************************************************************)
\* the read is skipped: a handler that went on to read the clipboard
AfterExtractError_read == P("clip_read", 0)

\* catch (extractError): log, then fall out of the try block
AfterExtractError == P("close", 0)

PageUrl ==
    /\ pc.at = "page_url"
    /\ \/ pc' = P("avatar_wait", 1)
       \/ pc' = AfterExtractError
    /\ UNCHANGED <<browser, thrownAt, ghostVars, dataVars, planVars, harnessVars>>

\* a loop that gives up after the first selector that fails
NextAvatar_giveUp(i) == P("avatar_check", 0)

\* a loop that tries the failed selector again
NextAvatar_retry(i) == P("avatar_wait", i)

\* the inner catch of the selector loop: continue with the next selector
NextAvatar(i) == IF i < NumAvatarSelectors THEN P("avatar_wait", i + 1) ELSE P("avatar_check", 0)

AvatarWait ==
    /\ pc.at = "avatar_wait"
    /\ \/ pc' = P("avatar_click", pc.i)
       \/ pc' = NextAvatar(pc.i)
    /\ UNCHANGED <<browser, thrownAt, ghostVars, dataVars, planVars, harnessVars>>

AvatarClick ==
    /\ pc.at = "avatar_click"
    /\ \/ pc' = P("avatar_check", 0) /\ avatarClicked' = TRUE
       \/ pc' = NextAvatar(pc.i) /\ UNCHANGED avatarClicked
    /\ UNCHANGED <<browser, thrownAt, closeCalls, trustClicked, revealFailed, clipReads, dataVars, planVars, harnessVars>>

\* if (!avatarClicked) throw new Error(...)
AvatarCheck ==
    /\ pc.at = "avatar_check"
    /\ IF avatarClicked
       THEN pc' = P("reveal_wait", 1) /\ UNCHANGED revealFailed
       ELSE pc' = AfterExtractError /\ revealFailed' = TRUE
    /\ UNCHANGED <<browser, thrownAt, closeCalls, trustClicked, avatarClicked, clipReads, dataVars, planVars, harnessVars>>

RevealWait ==
    /\ pc.at = "reveal_wait"
    /\ \/ pc' = P("reveal_click", pc.i) /\ UNCHANGED revealFailed
       \/ pc' = AfterExtractError /\ revealFailed' = TRUE
    /\ UNCHANGED <<browser, thrownAt, closeCalls, trustClicked, avatarClicked, clipReads, dataVars, planVars, harnessVars>>

RevealClick ==
    /\ pc.at = "reveal_click"
    /\ \/ /\ pc' = IF pc.i < Len(RevealPlan) THEN P("reveal_wait", pc.i + 1) ELSE P("clip_read", 0)
          /\ UNCHANGED revealFailed
       \/ pc' = AfterExtractError /\ revealFailed' = TRUE
    /\ UNCHANGED <<browser, thrownAt, closeCalls, trustClicked, avatarClicked, clipReads, dataVars, planVars, harnessVars>>

\* a gate that lets any non-empty text through
Accepts_any(text) == TRUE

\* this.isValidTokenFormat(clipboardText) as called at line 294
Accepts(text) == isValidTokenFormat(text)

\* lines 289-302: read the clipboard and classify what was read
ReadClipboard ==
    /\ pc.at = "clip_read"
    /\ clipReads' = clipReads + 1
    /\ pc' = P("close", 0)
    /\ \/ UNCHANGED <<clip, classifyCalls, token>>
       \/ \E clipboardText \in ClipTexts :
             /\ clip' = Some(clipboardText)
             /\ IF clipboardText = <<>>
                THEN UNCHANGED <<classifyCalls, token>>
                ELSE /\ classifyCalls' =
                           Append(classifyCalls, [arg |-> clipboardText, verdict |-> Accepts(clipboardText)])
                     /\ token' = IF Accepts(clipboardText) THEN Some(Trim(clipboardText)) ELSE token
    /\ UNCHANGED <<browser, thrownAt, closeCalls, trustClicked, avatarClicked, revealFailed,
                   validateCalls, requests, isValid, saveCalls, envFile, shFile, envFile0,
                   now, outcome, exitCode, infoOut, planVars, harnessVars>>

(***************************************************************************)
(* Lines 308-364: close, decide, validate, save                            *)
(***************************************************************************)
\* the process ends: process.exit(code), or main returns
Exit(code, how) == pc' = P("exited", 0) /\ exitCode' = code /\ outcome' = how

\* a close that is forgotten
CloseBrowser_skip ==
    /\ pc.at = "close"
    /\ pc' = P("token_check", 0)
    /\ UNCHANGED <<browser, thrownAt, closeCalls, trustClicked, avatarClicked, revealFailed, clipReads, dataVars, planVars, harnessVars>>

\* line 308: await browser.close()
CloseBrowser ==
    /\ pc.at = "close"
    /\ closeCalls' = closeCalls + 1
    /\ \/ pc' = P("token_check", 0) /\ browser' = "closed" /\ UNCHANGED thrownAt
       \/ ThrowOuter /\ UNCHANGED browser
    /\ UNCHANGED <<trustClicked, avatarClicked, revealFailed, clipReads, dataVars, planVars, harnessVars>>

\* if (!token)
NoToken(t) == ~IsSome(t) \/ t[1] = <<>>

\* a cleaning that only trims
cleanToken_trimOnly(t) == Trim(t)

\* line 327: token.replace(/^Bearer\s+/i, '').trim()
cleanToken(t) == Trim(StripBearer(t))

\* lines 310-327: the branch on token, and the cleaning of the token
TokenCheck ==
    /\ pc.at = "token_check"
    /\ IF NoToken(token)
       THEN pc' = P("close_again", 0) /\ UNCHANGED token
       ELSE /\ pc' = P("validate", 0)
            /\ token' = Some(cleanToken(token[1]))
    /\ UNCHANGED <<browser, thrownAt, ghostVars, clip, classifyCalls, validateCalls, requests,
                   isValid, saveCalls, envFile, shFile, envFile0, now, outcome,
                   exitCode, infoOut, planVars, harnessVars>>

\* lines 320-321: the second browser.close(), then return
CloseAgain ==
    /\ pc.at = "close_again"
    /\ closeCalls' = closeCalls + 1
    /\ \/ Exit(0, "NoCandidate") /\ UNCHANGED thrownAt
       \/ ThrowOuter /\ UNCHANGED <<outcome, exitCode>>
    /\ UNCHANGED <<browser, trustClicked, avatarClicked, revealFailed, clipReads, clip, classifyCalls,
                   token, validateCalls, requests, isValid, saveCalls, envFile, shFile, envFile0,
                   now, infoOut, planVars, harnessVars>>

\* axios rejects when there is no response or the status is outside 2xx
AxiosRejects(status) == status \notin 200..299

\* a test that takes every 2xx answer for success
StatusOK_any2xx(status) == status \in 200..299

\* return response.status === 200
StatusOK(status) == status = 200

\* lines 64-84: one GET inside try; catch (error: any) logs and returns false
validatePersonalToken(t, status) ==
    [arg |-> t,
     status |-> status,
     requests |-> 1,
     raised |-> FALSE,
     result |-> IF AxiosRejects(status) THEN FALSE ELSE StatusOK(status)]

\* line 341
Validate ==
    /\ pc.at = "validate"
    /\ \E status \in Statuses :
          /\ validateCalls' = Append(validateCalls, validatePersonalToken(token[1], status))
          /\ requests' = requests + validatePersonalToken(token[1], status).requests
          /\ IF validatePersonalToken(token[1], status).raised
             THEN ThrowOuter /\ UNCHANGED isValid
             ELSE /\ isValid' = validatePersonalToken(token[1], status).result
                  /\ pc' = P("valid_check", 0)
                  /\ UNCHANGED thrownAt
    /\ UNCHANGED <<browser, ghostVars, clip, classifyCalls, token, saveCalls,
                   envFile, shFile, envFile0, now, outcome, exitCode, infoOut, planVars, harnessVars>>

\* a test that lets a rejected token through
Invalid_never(v) == FALSE

\* if (!isValid)
Invalid(v) == ~v

\* lines 342-350
ValidCheck ==
    /\ pc.at = "valid_check"
    /\ IF Invalid(isValid)
       THEN Exit(0, "ValidationFailed")
       ELSE pc' = P("save", 0) /\ UNCHANGED <<outcome, exitCode>>
    /\ UNCHANGED <<browser, thrownAt, ghostVars, clip, classifyCalls, token, validateCalls, requests,
                   isValid, saveCalls, envFile, shFile, envFile0, now, infoOut, planVars, harnessVars>>

\* lines 353-358
patTokenData(t) ==
    [access_token |-> t, refresh_token |-> <<>>, expires_in |-> 0, token_type |-> "Bearer"]

\* lines 360-364: saveToken(patTokenData), then process.exit(0); either
\* writeFileSync may throw, and the clock is read once for each file
SaveToken ==
    /\ pc.at = "save"
    /\ saveCalls' = Append(saveCalls, patTokenData(token[1]))
    /\ \E t1 \in now..MaxClock : \E t2 \in t1..MaxClock :
          \/ /\ envFile' = Some(newContent(envFile, patTokenData(token[1]), t1))
             /\ shFile' = Some(shellScript(patTokenData(token[1]), t2))
             /\ now' = t2
             /\ Exit(0, "Success")
             /\ UNCHANGED thrownAt
          \/ /\ envFile' = Some(newContent(envFile, patTokenData(token[1]), t1))
             /\ now' = t1
             /\ ThrowOuter
             /\ UNCHANGED <<shFile, outcome, exitCode>>
          \/ /\ now' = t1
             /\ ThrowOuter
             /\ UNCHANGED <<envFile, shFile, outcome, exitCode>>
    /\ UNCHANGED <<browser, ghostVars, clip, classifyCalls, token, validateCalls, requests,
                   isValid, envFile0, infoOut, planVars, harnessVars>>

\* lines 366-375: log, process.exit(1)
OuterCatch ==
    /\ pc.at = "outer_catch"
    /\ Exit(1, "Error")
    /\ UNCHANGED <<browser, thrownAt, ghostVars, clip, classifyCalls, token, validateCalls, requests,
                   isValid, saveCalls, envFile, shFile, envFile0, now, infoOut, planVars, harnessVars>>

\* lines 474-513: the info command, run after the login process has ended
\* or after a saveToken call has returned
Info ==
    /\ pc.at \in {"exited", "persist"}
    /\ infoOut.status = "notrun"
    /\ \E t \in now..MaxClock :
          /\ now' = t
          /\ infoOut' = infoReport(envFile, t)
    /\ UNCHANGED <<pc, browser, thrownAt, ghostVars, clip, classifyCalls, token, validateCalls, requests,
                   isValid, saveCalls, envFile, shFile, envFile0, outcome, exitCode, planVars, harnessVars>>

(***************************************************************************)
(* The classifier applied to an input and to the same input behind the     *)
(* literal prefix "Bearer ".                                               *)
(***************************************************************************)
HarnessIdle ==
    /\ cin = <<>>
    /\ cdone = FALSE
    /\ cout = FALSE
    /\ pdone = FALSE
    /\ pout = FALSE

HarnessInit ==
    /\ cin \in Inputs
    /\ cdone = FALSE
    /\ cout = FALSE
    /\ pdone = FALSE
    /\ pout = FALSE

ClassifyPlain ==
    /\ ~cdone
    /\ cdone' = TRUE
    /\ cout' = isValidTokenFormat(cin)
    /\ UNCHANGED <<cin, pdone, pout, orchVars>>

ClassifyPrefixed ==
    /\ ~pdone
    /\ pdone' = TRUE
    /\ pout' = isValidTokenFormat(BearerSp \o cin)
    /\ UNCHANGED <<cin, cdone, cout, orchVars>>

(***************************************************************************)
(* saveToken called on its own: any prior .env, any TokenResponse          *)
(***************************************************************************)
MaxLines == 2

MaxSaves == 2

\* lines a prior .env may hold
LinePool ==
    { <<"F","O","O","=","b","a","r">>,
      <<"#"," ","n","o","t","e">>,
      <<>>,
      <<" "," ">>,
      <<"W","E","B","E","X","_","A","C","C","E","S","S","_","T","O","K","E","N","=","o","l","d">>,
      <<"W","E","B","E","X","_","R","E","F","R","E","S","H","_","T","O","K","E","N","=","r","0">>,
      <<"W","E","B","E","X","_","T","O","K","E","N","_","E","X","P","I","R","E","S","_","A","T","=","5">>,
      <<"M","Y","_","W","E","B","E","X","_","A","C","C","E","S","S","_","T","O","K","E","N","=","z","z">> }

LineSeqs == UNION { [1..n -> LinePool] : n \in 0..MaxLines }

\* the .env before the first call
PriorEnvFiles == {None} \cup { Some(Join(ls)) : ls \in LineSeqs }

\* the TokenResponse values passed
SaveTokens ==
    { [access_token |-> <<"t","o","k","A">>, refresh_token |-> <<>>, expires_in |-> 0, token_type |-> "Bearer"],
      [access_token |-> <<"t","o","k","B">>, refresh_token |-> <<"r","1">>, expires_in |-> 1, token_type |-> "Bearer"] }

\* lines 32-62: a call that returns, or one whose writeFileSync throws
SaveTokenCall ==
    /\ pc.at = "persist"
    /\ pc.i < MaxSaves
    /\ \E tok \in SaveTokens : \E t1 \in now..MaxClock : \E t2 \in t1..MaxClock :
          /\ saveCalls' = Append(saveCalls, tok)
          /\ envFile0' = envFile
          /\ \/ /\ envFile' = Some(newContent(envFile, tok, t1))
                /\ shFile' = Some(shellScript(tok, t2))
                /\ now' = t2
                /\ pc' = P("persist", pc.i + 1)
                /\ UNCHANGED thrownAt
             \/ /\ envFile' = Some(newContent(envFile, tok, t1))
                /\ now' = t1
                /\ pc' = P("persist_failed", pc.i)
                /\ thrownAt' = "write_sh"
                /\ UNCHANGED shFile
             \/ /\ now' = t1
                /\ pc' = P("persist_failed", pc.i)
                /\ thrownAt' = "write_env"
                /\ UNCHANGED <<envFile, shFile>>
    /\ UNCHANGED <<browser, ghostVars, planVars, clip, classifyCalls, token, validateCalls,
                   requests, isValid, outcome, exitCode, infoOut, harnessVars>>

(***************************************************************************)
(* Specifications                                                          *)
(***************************************************************************)
Init == OrchInit /\ HarnessIdle

\* lines 93-376: one step of the automated flow
getTokenAutomatically ==
    \/ ImportPuppeteer
    \/ Launch
    \/ SetupCall
    \/ SignInWait
    \/ SignInMaximize
    \/ SignInAct
    \/ MfaWait
    \/ MfaClick
    \/ MfaMinimize
    \/ PageUrl
    \/ AvatarWait
    \/ AvatarClick
    \/ AvatarCheck
    \/ RevealWait
    \/ RevealClick
    \/ ReadClipboard
    \/ CloseBrowser
    \/ TokenCheck
    \/ CloseAgain
    \/ Validate
    \/ ValidCheck
    \/ SaveToken
    \/ OuterCatch

\* the login command (lines 461-472), and the info command run after it
Next ==
    \/ getTokenAutomatically
    \/ Info

Spec == Init /\ [][Next]_vars

\* every awaited call of the flow returns or throws, so no step of the flow
\* is postponed forever; nothing obliges the user to run the info command
FairSpec == Init /\ [][Next]_vars /\ WF_vars(getTokenAutomatically)

InitClassifier ==
    /\ HarnessInit
    /\ pc = P("idle", 0)
    /\ browser = "none"
    /\ closeCalls = 0
    /\ trustClicked = FALSE
    /\ signInFailed = FALSE
    /\ trustAppeared = FALSE
    /\ requests = 0
    /\ avatarClicked = FALSE
    /\ revealFailed = FALSE
    /\ clipReads = 0
    /\ clip = None
    /\ classifyCalls = <<>>
    /\ token = None
    /\ validateCalls = <<>>
    /\ isValid = FALSE
    /\ saveCalls = <<>>
    /\ envFile = None
    /\ envFile0 = None
    /\ shFile = None
    /\ now = 1
    /\ thrownAt = "none"
    /\ outcome = "Running"
    /\ exitCode = -1
    /\ infoOut = NotRun

NextClassifier == ClassifyPlain \/ ClassifyPrefixed

SpecClassifier == InitClassifier /\ [][NextClassifier]_vars

\* everything but the files, the clock and the position
IdleInit ==
    /\ HarnessIdle
    /\ browser = "none"
    /\ closeCalls = 0
    /\ trustClicked = FALSE
    /\ signInFailed = FALSE
    /\ trustAppeared = FALSE
    /\ requests = 0
    /\ avatarClicked = FALSE
    /\ revealFailed = FALSE
    /\ clipReads = 0
    /\ clip = None
    /\ classifyCalls = <<>>
    /\ token = None
    /\ validateCalls = <<>>
    /\ isValid = FALSE
    /\ saveCalls = <<>>
    /\ thrownAt = "none"
    /\ outcome = "Running"
    /\ exitCode = -1
    /\ infoOut = NotRun

InitSave ==
    /\ IdleInit
    /\ pc = P("persist", 0)
    /\ envFile \in PriorEnvFiles
    /\ envFile0 = envFile
    /\ shFile = None
    /\ now = 1

NextSave ==
    \/ SaveTokenCall
    \/ Info

SpecSave == InitSave /\ [][NextSave]_vars

(***************************************************************************)
(* Properties of getTokenAutomatically                                     *)
(***************************************************************************)
\* the process has ended
Terminal == pc.at = "exited"

\* some call of isValidTokenFormat in this run accepted a text whose cleaned form is t
ClassifierAccepted(t) ==
    \E j \in 1..Len(classifyCalls) :
       /\ classifyCalls[j].verdict
       /\ isValidTokenFormat(classifyCalls[j].arg)
       /\ cleaned(classifyCalls[j].arg) = t

\* some call of validatePersonalToken in this run got 200 for t and returned true
ValidatorAccepted(t) ==
    \E k \in 1..Len(validateCalls) :
       /\ validateCalls[k].arg = t
       /\ validateCalls[k].status = 200
       /\ validateCalls[k].result

\* C1: saveToken is only ever called with a string that isValidTokenFormat
\* accepted and for which validatePersonalToken returned true in the same run.
C1_SavedOnlyClassifiedAndValidated ==
    \A i \in 1..Len(saveCalls) :
       /\ ClassifierAccepted(saveCalls[i].access_token)
       /\ isValidTokenFormat(saveCalls[i].access_token)
       /\ ValidatorAccepted(saveCalls[i].access_token)

\* a run that called saveToken with a token read behind a bearer prefix
C1_Witness ==
    /\ Len(saveCalls) = 1
    /\ IsSome(clip)
    /\ HasBearerPrefix(clip[1])
    /\ saveCalls[1].access_token = GoodToken

\* C2: once the browser was launched, every exit of getTokenAutomatically
\* has closed it before the process ends.
C2_ClosedOnEveryExit == (Terminal /\ browser # "none") => browser = "closed"

\* the run found no candidate or one the classifier rejected
NoQualifyingCandidate ==
    \/ clipReads = 0
    \/ ~IsSome(clip)
    \/ clip[1] = <<>>
    \/ ~isValidTokenFormat(clip[1])

ValidatorRejected == \E k \in 1..Len(validateCalls) : ~validateCalls[k].result

\* the failures other than an exception inside saveToken itself
FailedBeforeSave ==
    \/ outcome \in {"NoCandidate", "ValidationFailed"}
    \/ outcome = "Error" /\ thrownAt # "save"

\* C3: a run that ends in Success called saveToken exactly once; a run that
\* ends in Failure (no session, no candidate, candidate rejected, validator
\* false) never called it and left both files as they were.
C3_SavedOnceOnSuccessNeverOnFailure ==
    Terminal =>
       /\ outcome = "Success" => Len(saveCalls) = 1
       /\ (FailedBeforeSave \/ browser = "none" \/ NoQualifyingCandidate \/ ValidatorRejected) =>
             /\ saveCalls = <<>>
             /\ envFile = envFile0
             /\ shFile = None
             /\ outcome # "Success"

\* a run whose validator said no, ended without a save and with the old file in place
C3_Witness ==
    /\ Terminal
    /\ outcome = "ValidationFailed"
    /\ ValidatorRejected
    /\ saveCalls = <<>>
    /\ envFile = Some(OldEnv)

\* C4: the login command exits with 0 exactly when the acquisition ended in
\* Success and with 1 on every Failure.
C4_ExitCodeTellsOutcome ==
    Terminal =>
       /\ exitCode = 0 <=> outcome = "Success"
       /\ exitCode = 1 <=> outcome # "Success"

\* the run is past the reveal plan and the clipboard block
PastExtraction == pc.at \in {"close", "token_check", "close_again", "validate", "valid_check", "save", "exited"}

C6_RejectedNeverValidated ==
    (clipReads >= 1 /\ NoQualifyingCandidate /\ PastExtraction) =>
       /\ validateCalls = <<>>
       /\ pc.at \notin {"validate", "valid_check", "save"}
       /\ Terminal => outcome \in {"NoCandidate", "Error"}

\* a run that read "{}" from the clipboard and ended
C6_Witness ==
    /\ Terminal
    /\ clip = Some(<<"{", "}">>)
    /\ Len(classifyCalls) = 1
    /\ outcome = "NoCandidate"

\* C7: a run whose clipboard held a qualifying token and whose validator
\* returned true called browser.close() exactly once.
C7_ClosedOnceOnSuccess ==
    (Terminal /\ ~NoQualifyingCandidate /\ \E k \in 1..Len(validateCalls) : validateCalls[k].result)
       => closeCalls = 1

\* a run that ended in Success
C7_Witness ==
    /\ Terminal
    /\ outcome = "Success"
    /\ closeCalls = 1
    /\ browser = "closed"

\* the expiry and refresh token the info command finds in .env
PersistedExpiry == MatchValue(existingContent(envFile), KeyExpires)

PersistedRefresh == MatchValue(existingContent(envFile), KeyRefresh)

\* C8: on Success the persisted expiry is 0 and the refresh token is empty,
\* and a later info command reports the token as never expiring.
C8_ExpiryZeroPersisted ==
    (Terminal /\ outcome = "Success") =>
       /\ IsSome(PersistedExpiry)
       /\ PersistedExpiry = Some(<<"0">>)
       /\ PersistedRefresh = None
       /\ infoOut.status = "shown" => infoOut.expires = "Never"

(***************************************************************************)
(* Properties of isValidTokenFormat                                        *)
(***************************************************************************)
\* C9 as stated: for every x, isValidTokenFormat("Bearer " + x) equals
\* isValidTokenFormat(x).
C9_PrefixInvariant == (cdone /\ pdone) => pout = cout

\* C9 as amended: the two agree for every x that does not itself begin with
\* a Bearer prefix (x may begin with whitespace); when x begins with a
\* Bearer prefix, "Bearer " + x is rejected whatever the verdict on x.
C9_PrefixInvariantSinglePrefix ==
    (cdone /\ pdone) =>
       IF HasBearerPrefix(cin) THEN ~pout ELSE pout = cout

\* an accepted x that begins with whitespace, accepted behind the prefix too
C9_Witness ==
    /\ cdone
    /\ pdone
    /\ Len(cin) >= 1
    /\ cin[1] \in WS
    /\ cout
    /\ pout

\* the conditions of C10 on the stripped text
Qualifies(text) ==
    /\ Len(cleaned(text)) >= MinTokenLen
    /\ Range(cleaned(text)) \subseteq TokenChars
    /\ Range(cleaned(text)) \cap Digit # {}
    /\ Range(cleaned(text)) \cap Upper # {}
    /\ Range(cleaned(text)) \cap Lower # {}
    /\ ~excludeJSONPatterns(cleaned(text))
    /\ ~excludePatterns(cleaned(text))

\* C10: isValidTokenFormat accepts exactly the texts whose stripped form has
\* length at least 80, only token characters, a digit, an uppercase and a
\* lowercase letter and matches no JSON or placeholder pattern; it rejects
\* every text shorter than 80 characters and a run of 80 x.
C10_AcceptsExactlyQualifying ==
    cdone =>
       /\ cout <=> Qualifies(cin)
       /\ Len(cin) < MinTokenLen => ~cout
       /\ cin = Pad("x", MinTokenLen) => ~cout

\* an accepted text whose stripped form has exactly the minimum length
C10_Witness ==
    /\ cdone
    /\ cout
    /\ Len(cleaned(cin)) = MinTokenLen
    /\ Len(cin) > MinTokenLen

(***************************************************************************)
(* Properties of validatePersonalToken                                     *)
(***************************************************************************)
\* C11: each call of validatePersonalToken sends exactly one request,
\* returns true exactly when the status is 200, false for any other status
\* or a transport error, and raises nothing to its caller.
C11_OneRequestTrueIff200 ==
    /\ requests = Len(validateCalls)
    /\ thrownAt # "validate"
    /\ \A k \in 1..Len(validateCalls) :
          /\ validateCalls[k].requests = 1
          /\ ~validateCalls[k].raised
          /\ validateCalls[k].result <=> validateCalls[k].status = 200
    /\ pc.at = "valid_check" => isValid = (validateCalls[Len(validateCalls)].status = 200)

\* a call answered with 204 that returned false
C11_Witness ==
    /\ pc.at = "valid_check"
    /\ requests = 1
    /\ validateCalls[1].status = 204
    /\ ~isValid

(***************************************************************************)
(* Properties of saveToken                                                 *)
(***************************************************************************)
\* a saveToken call has returned
SaveReturned == pc.at = "persist" /\ pc.i >= 1

Keys == {KeyAccess, KeyRefresh, KeyExpires}

BeginsWithKey(line) == \E key \in Keys : Len(line) >= Len(key) /\ \A i \in 1..Len(key) : line[i] = key[i]

\* a non-blank line that is not a line of one of the three keys
IsOtherLine(line) == ~BeginsWithKey(line) /\ \E i \in 1..Len(line) : line[i] \notin WS

LinesBefore == Split(existingContent(envFile0))

LinesAfter == Split(existingContent(envFile))

\* the three lines saveToken appends, and the empty piece after the last newline
NumAppended == 4

\* C12: saveToken removes every prior line of the three keys and leaves
\* every other non-blank line present, unmodified and in its original order.
C12_OtherLinesPreserved ==
    SaveReturned =>
       /\ Len(LinesAfter) >= NumAppended
       /\ SubSeq(LinesAfter, 1, Len(LinesAfter) - NumAppended) = SelectSeq(LinesBefore, IsOtherLine)
       /\ \A i \in 1..(Len(LinesAfter) - NumAppended) : ~BeginsWithKey(LinesAfter[i])

\* a call on a file that held an old token line between two other lines
C12_Witness ==
    /\ SaveReturned
    /\ Len(LinesBefore) = 2
    /\ BeginsWithKey(LinesBefore[1])
    /\ IsOtherLine(LinesBefore[2])
    /\ Len(LinesAfter) = NumAppended + 1

Max(S) == CHOOSE x \in S : \A y \in S : y <= x

\* the value on the last line of content that begins with pre, without the
\* len characters that end the line
LastLineValue(content, pre, len) ==
    LET ls == Split(content)
        hits == { i \in 1..Len(ls) : StartsWith(ls[i], pre) }
    IN  IF hits = {} THEN None
        ELSE Some(SubSeq(ls[Max(hits)], Len(pre) + 1, Len(ls[Max(hits)]) - len))

EnvValue(key) == LastLineValue(existingContent(envFile), key, 0)

ExportWord == <<"e","x","p","o","r","t"," ">>

ShValue(key) == LastLineValue(existingContent(shFile), ExportWord \o key \o <<"\"">>, 1)

\* C13: after a saveToken call the shell script exports the same access
\* token, refresh token and expiry as the ones the call wrote to .env.
C13_ScriptMatchesEnv ==
    SaveReturned =>
       \A key \in Keys : IsSome(EnvValue(key)) /\ ShValue(key) = EnvValue(key)

(***************************************************************************)
(* Properties of the step plans                                            *)
(***************************************************************************)
SignInPcs == {"signin_wait", "signin_maximize", "signin_act"}

MfaPcs == {"mfa_wait", "mfa_click", "mfa_minimize"}

AvatarPcs == {"avatar_wait", "avatar_click"}

RevealPcs == {"avatar_wait", "avatar_click", "avatar_check", "reveal_wait", "reveal_click"}

\* C14: whatever the outcome of the sign-in plan, the flow moves on to the
\* wait for the trust-device button; a failed sign-in step never ends the run.
C14_SignInAlwaysMovesOn ==
    /\ [][pc.at \in SignInPcs => (pc'.at \in SignInPcs \/ pc' = P("mfa_wait", 0))]_vars
    /\ [][(signInFailed' /\ ~signInFailed) => (pc' = P("mfa_wait", 0) /\ thrownAt' = "none" /\ exitCode' = -1)]_vars

\* a run whose sign-in plan failed, now waiting for the trust-device button
C14_Witness ==
    /\ pc = P("mfa_wait", 0)
    /\ signInFailed

\* C15: when the trust-device button does not appear in time, or clicking it
\* fails, the flow goes on to the reveal block anyway; when it appears, the
\* click is attempted before the reveal block starts.
C15_MfaTimeoutProceeds ==
    /\ [][pc.at \in MfaPcs => (pc'.at \in MfaPcs \/ pc' = P("page_url", 0))]_vars
    /\ [][(pc.at = "mfa_wait" /\ trustAppeared') => pc' = P("mfa_click", 0)]_vars
    /\ [][(pc.at = "mfa_wait" /\ ~trustAppeared') => pc' = P("page_url", 0)]_vars
    /\ [][pc.at = "mfa_click" => (trustClicked' \/ pc' = P("page_url", 0))]_vars
    /\ [](trustClicked => trustAppeared)
    /\ [](pc.at \in {"mfa_wait", "mfa_click"} => ~trustClicked)

\* a run in the avatar loop after the button appeared and its click failed
C15_Witness ==
    /\ pc.at = "avatar_wait"
    /\ trustAppeared
    /\ ~trustClicked

C17_NoAlternativeAfterResolve == [][pc.at = "avatar_click" => pc'.at # "avatar_wait"]_vars

\* C17 as amended: the alternatives are tried in list order, each after its
\* own wait; the step succeeds on the first one whose wait and click both
\* succeed and nothing is tried after that; one that resolves but whose click
\* throws is passed over; the step fails only after the last alternative.
C17_AvatarAlternativesInOrder ==
    /\ [][pc'.at = "avatar_wait" =>
            \/ pc.at = "page_url" /\ pc'.i = 1
            \/ pc.at \in AvatarPcs /\ pc'.i = pc.i + 1 /\ ~avatarClicked']_vars
    /\ [][pc'.at = "avatar_click" => (pc.at = "avatar_wait" /\ pc'.i = pc.i)]_vars
    /\ [][(avatarClicked' /\ ~avatarClicked) => (pc.at = "avatar_click" /\ pc'.at = "avatar_check")]_vars
    /\ [](avatarClicked => pc.at \notin AvatarPcs)
    /\ [][(pc'.at = "avatar_check" /\ ~avatarClicked') => (pc.at \in AvatarPcs /\ pc.i = NumAvatarSelectors)]_vars
    /\ [][(pc.at = "avatar_check" /\ revealFailed') => ~avatarClicked]_vars

\* the third alternative resolved after the first two were passed over
C17_Witness ==
    /\ pc.at = "avatar_click"
    /\ pc.i = 3
    /\ ~avatarClicked

\* C18: every run reaches a terminal outcome.
C18_EventuallyTerminal == <>Terminal

\* a run that ended although no wait ever succeeded
C18_Witness ==
    /\ Terminal
    /\ signInFailed
    /\ ~trustAppeared
    /\ revealFailed
    /\ ~avatarClicked

\* C19: browser.close() is called at most once in a run.
C19_ClosedAtMostOnce == closeCalls <= 1

PageOpPcs ==
    {"setup", "signin_wait", "signin_maximize", "signin_act", "mfa_wait", "mfa_click",
     "mfa_minimize", "page_url", "avatar_wait", "avatar_click", "reveal_wait",
     "reveal_click", "clip_read"}

\* C20: no page operation follows the close of the session, and
\* validatePersonalToken and saveToken are called only after the close.
C20_NothingOnPageAfterClose ==
    /\ browser = "closed" => pc.at \notin PageOpPcs
    /\ closeCalls >= 1 => pc.at \notin PageOpPcs
    /\ pc.at \in {"validate", "valid_check", "save"} => browser = "closed"
    /\ requests >= 1 => browser = "closed"
    /\ saveCalls # <<>> => browser = "closed"

\* a run that validated and saved with the browser closed
C20_Witness ==
    /\ browser = "closed"
    /\ requests = 1
    /\ Len(saveCalls) = 1

(***************************************************************************)
(* The cleaning of the orchestrator and of the classifier                  *)
(***************************************************************************)
\* lines 295 and 327 applied to a clipboard text: trim, strip, trim
OrchestratorCleaned(text) == cleanToken(Trim(text))

\* on every classifier input that is accepted the two cleanings agree
CleaningAgrees ==
    \A x \in Inputs \cup ClipTexts :
       isValidTokenFormat(x) => OrchestratorCleaned(x) = cleaned(x)

WellFormedToken(t) ==
    /\ Len(t) >= MinTokenLen
    /\ webexTokenPattern(t)
    /\ \A i \in 1..Len(t) : t[i] \notin WS
    /\ ~HasBearerPrefix(t)

\* C21: the string passed to validatePersonalToken and to saveToken is the
\* classifier's cleaned form of the clipboard text it accepted, the two
\* cleanings agree on every accepted text, and the persisted access token is
\* at least 80 long, made of token characters, without whitespace or prefix.
C21_PassedTokenIsClassifiedForm ==
    /\ CleaningAgrees
    /\ pc.at \in {"validate", "valid_check", "save"} =>
          /\ IsSome(clip) /\ isValidTokenFormat(clip[1])
          /\ token = Some(cleaned(clip[1]))
    /\ \A k \in 1..Len(validateCalls) : validateCalls[k].arg = cleaned(clip[1])
    /\ \A k \in 1..Len(saveCalls) :
          /\ saveCalls[k].access_token = cleaned(clip[1])
          /\ WellFormedToken(saveCalls[k].access_token)
    /\ outcome = "Success" =>
          /\ EnvValue(KeyAccess) = Some(cleaned(clip[1]))
          /\ WellFormedToken(EnvValue(KeyAccess)[1])

\* a token saved from a clipboard text with a prefix and whitespace around it
C21_Witness ==
    /\ outcome = "Success"
    /\ HasBearerPrefix(clip[1])
    /\ TrailingWS(clip[1]) >= 1
    /\ clip[1] # saveCalls[1].access_token
    /\ EnvValue(KeyAccess) = Some(GoodToken)

(***************************************************************************)
(* Repeated saveToken calls                                                *)
(***************************************************************************)
LinesOfKey(key) == { i \in 1..Len(LinesAfter) : StartsWith(LinesAfter[i], key) }

LastSaved == saveCalls[Len(saveCalls)]

NotKeyLine(line) == ~BeginsWithKey(line)

\* C22: after one or more saveToken calls .env holds exactly one line for
\* each of the three keys, with the values of the latest call, and the other
\* lines are the same before and after a call.
C22_OneLinePerKeyLatestValues ==
    SaveReturned =>
       /\ \A key \in Keys : Cardinality(LinesOfKey(key)) = 1
       /\ EnvValue(KeyAccess) = Some(LastSaved.access_token)
       /\ EnvValue(KeyRefresh) = Some(LastSaved.refresh_token)
       /\ \E t \in 1..now : EnvValue(KeyExpires) = Some(NumToStr(ExpiresAt(LastSaved, t)))
       /\ SelectSeq(LinesAfter, IsOtherLine) = SelectSeq(LinesBefore, IsOtherLine)
       /\ pc.i >= 2 => SelectSeq(LinesAfter, NotKeyLine) = SelectSeq(LinesBefore, NotKeyLine)

\* a second call with another token on a file that kept an unrelated line
C22_Witness ==
    /\ pc = P("persist", 2)
    /\ saveCalls[1].access_token # saveCalls[2].access_token
    /\ EnvValue(KeyAccess) = Some(saveCalls[2].access_token)
    /\ \E i \in 1..Len(LinesBefore) : IsOtherLine(LinesBefore[i])
    /\ \E i \in 1..Len(LinesBefore) : BeginsWithKey(LinesBefore[i])

(***************************************************************************)
(* The info command after saveToken                                        *)
(***************************************************************************)
\* the info command runs in this step, after saveToken calls that returned
InfoAfterSave ==
    /\ pc.at = "persist"
    /\ Len(saveCalls) >= 1
    /\ infoOut.status = "notrun"
    /\ infoOut'.status # "notrun"

\* C23: after a successful saveToken the info command displays the access
\* token just saved, whatever unrelated lines .env held, and leaves both
\* files as they were.
C23_InfoShowsSavedToken ==
    [][InfoAfterSave =>
         /\ infoOut'.status = "shown"
         /\ infoOut'.access = Shown(LastSaved.access_token)
         /\ envFile' = envFile
         /\ shFile' = shFile]_vars

====
